---- MODULE Spec2Model ----
(***************************************************************************)
(* A model of @periodic/titanium: the RateLimiter class (core/limiter.ts)  *)
(* and the Redis commands it issues (SET key 0 EX window NX, INCR, TTL,    *)
(* DEL, MULTI [GET, TTL]) against one shared Redis server.                 *)
(*                                                                         *)
(* Time is counted in milliseconds and advances in steps of TickMs.  A     *)
(* limit() call is four steps (the synchronous prefix that reads           *)
(* Date.now(), then one step per awaited Redis command); the other calls   *)
(* of other limiter instances, Redis expiry and the clock interleave       *)
(* between them.                                                           *)
(***************************************************************************)
EXTENDS Integers, Sequences, FiniteSets, TLC

(* ------------------------------ bounds -------------------------------- *)

\* config.limit of every limiter of the model
Quota == 2
\* config.window (seconds) of every limiter of the model
WindowSec == 2
\* the clock advances in steps of TickMs milliseconds
TickMs == 800
\* the clock stops after this many steps
MaxTicks == 3
\* limit() calls issued in one behaviour
MaxCalls == 4
\* limit() calls issued in one behaviour with two key prefixes in use
MaxCallsNs == 3
\* limit() calls issued in one behaviour that follows the calls after reset()
MaxCallsReset == 3
\* limit() calls issued in one behaviour with getStatus() and the clock
MaxCallsStatus == 2
\* limit() calls issued in one behaviour with blank identifiers in use
MaxCallsErr == 2
\* limit() calls issued in one behaviour with failing Redis commands
MaxCallsFail == 3
\* limit() calls issued in one behaviour with crashing processes
MaxCallsCrash == 3

MaxNow == MaxTicks * TickMs

\* the clock of the bursts at the end of a window: more than half a window a
\* step, so that two steps end the lifetime of a key
BurstTickMs == 1100
MaxTicksBurst == 4
\* limit() calls issued in one behaviour of bursts
MaxCallsBurst == 5
MaxNowBurst == MaxTicksBurst * BurstTickMs

(* ------------------------------ strings ------------------------------- *)

\* A string is a sequence of one-character strings.
RatelimitLit == <<"r", "a", "t", "e", "l", "i", "m", "i", "t">>
Colon == <<":">>

\* keyPrefix values the limiters are constructed with
PrefixA == <<"a">>
PrefixAB == <<"a", ":", "b">>
Prefixes == {PrefixA, PrefixAB}

\* identifiers passed to limit(), reset() and getStatus()
IdC == <<"c">>
IdBC == <<"b", ":", "c">>
Identifiers == {IdC, IdBC}

\* the limiter instances sharing the Redis server (two processes), each with
\* at most one limit() call in flight
Limiters == {1, 2}

\* buildKey, with the identifier left out of the key
BuildKeyNoId(keyPrefix, identifier) ==
    RatelimitLit \o Colon \o keyPrefix

\* private buildKey(identifier): `ratelimit:${this.keyPrefix}:${identifier}`
BuildKey(keyPrefix, identifier) ==
    RatelimitLit \o Colon \o keyPrefix \o Colon \o identifier

Keys == {BuildKey(p, i) : p \in Prefixes, i \in Identifiers}

(* ---------------------------- Redis server ---------------------------- *)

\* a key without an expiry (what TTL reports as -1)
NoExpiry == -1
Absent == [ex |-> FALSE, val |-> 0, exp |-> NoExpiry]

\* SET key value EX seconds, without NX: overwrites the value and the expiry
SetEx(s, k, v, seconds, t) ==
    [s EXCEPT ![k] = [ex |-> TRUE, val |-> v, exp |-> t + seconds * 1000]]

\* SET key value NX without EX: the key is created without an expiry
SetNx(s, k, v, seconds, t) ==
    IF s[k].ex
    THEN s
    ELSE [s EXCEPT ![k] = [ex |-> TRUE, val |-> v, exp |-> NoExpiry]]

\* SET key value EX seconds NX: creates the key, with its expiry, only when
\* the key does not exist; otherwise changes nothing
SetNxEx(s, k, v, seconds, t) ==
    IF s[k].ex
    THEN s
    ELSE [s EXCEPT ![k] = [ex |-> TRUE, val |-> v, exp |-> t + seconds * 1000]]

\* INCR that forgets the increment once the stored value has reached 1
IncrLost(s, k) ==
    IF s[k].ex
    THEN [s EXCEPT ![k].val = IF @ >= 1 THEN @ ELSE @ + 1]
    ELSE [s EXCEPT ![k] = [ex |-> TRUE, val |-> 1, exp |-> NoExpiry]]

\* INCR key: adds one and keeps the expiry; a missing key is created with
\* the value 1 and no expiry
Incr(s, k) ==
    IF s[k].ex
    THEN [s EXCEPT ![k].val = @ + 1]
    ELSE [s EXCEPT ![k] = [ex |-> TRUE, val |-> 1, exp |-> NoExpiry]]

\* TTL key: -2 for a missing key, -1 for a key without expiry, else the
\* remaining milliseconds rounded to seconds, (ms + 500) / 1000
Ttl(s, k, t) ==
    IF ~s[k].ex THEN -2
    ELSE IF s[k].exp = NoExpiry THEN -1
    ELSE (s[k].exp - t + 500) \div 1000

\* DEL that removes nothing
DelKeep(s, k) == s

\* DEL key: the store without the key
Del(s, k) == [s EXCEPT ![k] = Absent]

\* DEL key replying 1 whether or not the key existed
DelCountOne(s, k) == 1

\* DEL key: the number of keys removed
DelCount(s, k) == IF s[k].ex THEN 1 ELSE 0

\* the keys Redis removes when its clock reaches t: those with now > expiry
Expired(s, t) == {k \in Keys : s[k].ex /\ s[k].exp # NoExpiry /\ t > s[k].exp}

(* ------------------------- RateLimiter: results ----------------------- *)

Max(a, b) == IF a >= b THEN a ELSE b

\* Math.ceil(ms / 1000)
CeilSec(ms) == (ms + 999) \div 1000

\* allowed = currentCount <= requestLimit + 1
AllowedOffByOne(currentCount) == currentCount <= Quota + 1

\* const allowed = currentCount <= this.requestLimit
Allowed(currentCount) == currentCount <= Quota

\* remaining without the Math.max: requestLimit - currentCount
RemainingRaw(currentCount) == Quota - currentCount

\* const remaining = Math.max(0, this.requestLimit - currentCount)
Remaining(currentCount) == Max(0, Quota - currentCount)

\* resetTime without the fallback: now + ttl * 1000 whatever ttl is
ResetTimeNoFallback(now0, ttl) == now0 + ttl * 1000

\* const resetTime = ttl > 0 ? now + ttl * 1000 : now + this.window * 1000
ResetTime(now0, ttl) ==
    IF ttl > 0 THEN now0 + ttl * 1000 ELSE now0 + WindowSec * 1000

\* a RateLimitResult whose ttl is the TTL reply as it came
LimitResultRawTtl(now0, currentCount, ttl) ==
    [allowed   |-> Allowed(currentCount),
     limit     |-> Quota,
     remaining |-> Remaining(currentCount),
     reset     |-> CeilSec(ResetTime(now0, ttl)),
     ttl       |-> ttl]

\* the RateLimitResult that fixedWindowLimit returns
LimitResult(now0, currentCount, ttl) ==
    [allowed   |-> Allowed(currentCount),
     limit     |-> Quota,
     remaining |-> Remaining(currentCount),
     reset     |-> CeilSec(ResetTime(now0, ttl)),
     ttl       |-> IF ttl > 0 THEN ttl ELSE WindowSec]

(* ------------------------------- state -------------------------------- *)

VARIABLES
    now,       \* the clock (Date.now() and the Redis server's clock), ms
    store,     \* the Redis keyspace: key -> [ex, val, exp]
    prefixOf,  \* limiter -> the keyPrefix it was constructed with
    calls,     \* limiter -> its limit() call in flight
    ids,       \* the identifiers the callers pass
    todo,      \* limit() calls the callers have yet to issue
    ret,       \* what the step just taken returned to its caller, if anything
    nIncr,     \* key -> INCRs the key has received in its present lifetime
    admitted,  \* key -> allowed results of calls counted in its present lifetime
    returned,  \* key -> allowed results returned during its present lifetime
    nDone,     \* key -> calls counted in its present lifetime that completed
    hiLife,    \* key -> greatest count completed in its present lifetime
    firstReset,\* key -> reset time of the first result of its present lifetime
    avail,     \* this.redis.isOpen && this.redis.isReady
    post,      \* the last reset() and the first limit() call issued after it
    stamps,    \* the times of the allowed calls of the last window's length
    config,    \* the RateLimiterConfig handed to the constructor
    made,      \* what the constructor did with it
    options,   \* the ExpressRateLimitOptions the middleware was made with
    mw         \* the middleware's invocations, one in progress per limiter

vars == <<now, store, prefixOf, ids, calls, todo, ret, nIncr, admitted,
          returned, nDone, hiLife, firstReset, avail, post, stamps, config,
          made, options, mw>>

\* the state that no call of a constructed limiter touches
outside == <<config, made, options, mw>>

IdleCall == [pc |-> "idle", id |-> IdC, now0 |-> 0, count |-> 0,
             ord |-> 0, cur |-> FALSE, floor |-> 0, floorAll |-> 0]

\* the key a call in flight works on: const key = this.buildKey(identifier)
KeyOf(c) == BuildKey(prefixOf[c], calls[c].id)

\* a key's lifetime ends (expiry or DEL): nothing counted in it is current
EndLife(K) ==
    /\ nIncr' = [k \in Keys |-> IF k \in K THEN 0 ELSE nIncr[k]]
    /\ admitted' = [k \in Keys |-> IF k \in K THEN 0 ELSE admitted[k]]
    /\ returned' = [k \in Keys |-> IF k \in K THEN 0 ELSE returned[k]]
    /\ nDone' = [k \in Keys |-> IF k \in K THEN 0 ELSE nDone[k]]
    /\ hiLife' = [k \in Keys |-> IF k \in K THEN 0 ELSE hiLife[k]]
    /\ firstReset' = [k \in Keys |-> IF k \in K THEN 0 ELSE firstReset[k]]

CallsAfterEnd(K) ==
    [c \in Limiters |->
        IF calls[c].pc # "idle" /\ KeyOf(c) \in K
        THEN [calls[c] EXCEPT !.cur = FALSE, !.floor = 0]
        ELSE calls[c]]

NoRet == [op |-> "none"]

\* post.key is the key of the last reset() that returned, as long as no
\* limit() call has been issued for it since; post.call is the limiter whose
\* call in flight is the first one issued after that reset().  Kept only in
\* the behaviours that start with post.on.
NoKey == <<>>
NoCall == 0
PostOff == [on |-> FALSE, key |-> NoKey, call |-> NoCall]
PostOn == [on |-> TRUE, key |-> NoKey, call |-> NoCall]

\* stamps.counted holds the times of the INCRs of the calls that are allowed,
\* stamps.returned the times at which allowed results were returned, both
\* cut down to the last window's length.  Kept only in the behaviours that
\* start with stamps.on.
StampsOff == [on |-> FALSE, counted |-> <<>>, returned |-> <<>>]
StampsOn == [on |-> TRUE, counted |-> <<>>, returned |-> <<>>]

\* the times of seq that lie no more than one window before t
Recent(seq, t) ==
    LET Near(x) == t - x <= WindowSec * 1000 IN SelectSeq(seq, Near)

\* an option that is left out (undefined), and one that is given
Missing == [given |-> FALSE, v |-> <<>>]
Given(x) == [given |-> TRUE, v |-> x]
MissingNumber == [given |-> FALSE, v |-> 0]

\* the configuration of the limiters whose construction is not followed
DefaultConfig ==
    [redis |-> TRUE, limit |-> Given(Quota), window |-> Given(WindowSec),
     keyPrefix |-> Given(PrefixA)]
NotMade == "none"

\* an option of the middleware left out
Unset == "unset"

\* the options of a middleware made with none of the optional ones
DefaultOptions ==
    [failStrategy |-> Unset, standardHeaders |-> Unset, skip |-> FALSE,
     identifier |-> FALSE]

\* the response headers and the response body while nothing is written
NoHeaders == [set |-> FALSE, limit |-> <<>>, remaining |-> <<>>,
              reset |-> <<>>, retryAfter |-> Missing]
NoBody == [kind |-> "none", retryAfter |-> 0, limit |-> 0, remaining |-> 0,
           reset |-> 0]

\* an invocation of the middleware before anything has happened in it:
\* cause is what brought it to its catch block, nextCalls the number of calls
\* of next(), status the HTTP status sent (0: none), rejected whether the
\* promise of the invocation is rejected
NewRequest(nextThrows) ==
    [pc |-> "idle", id |-> <<>>, skipped |-> FALSE, cause |-> "none",
     error |-> "", nextThrows |-> nextThrows, nextCalls |-> 0, status |-> 0,
     headers |-> NoHeaders, body |-> NoBody, rejected |-> FALSE]

NoRequests == [r \in Limiters |-> NewRequest(FALSE)]

InitCore(pfx, idents, n, p) ==
    /\ now = 0
    /\ store = [k \in Keys |-> Absent]
    /\ prefixOf = pfx
    /\ ids = idents
    /\ calls = [c \in Limiters |-> IdleCall]
    /\ todo = n
    /\ ret = NoRet
    /\ nIncr = [k \in Keys |-> 0]
    /\ admitted = [k \in Keys |-> 0]
    /\ returned = [k \in Keys |-> 0]
    /\ nDone = [k \in Keys |-> 0]
    /\ hiLife = [k \in Keys |-> 0]
    /\ firstReset = [k \in Keys |-> 0]
    /\ avail = TRUE
    /\ post = p

InitAll(pfx, idents, n, p) ==
    /\ InitCore(pfx, idents, n, p)
    /\ stamps = StampsOff
    /\ config = DefaultConfig
    /\ made = NotMade
    /\ options = DefaultOptions
    /\ mw = NoRequests

InitWith(pfx, idents, n) == InitAll(pfx, idents, n, PostOff)

\* two limiter instances constructed with the same keyPrefix, one identifier
Init == InitWith([l \in Limiters |-> PrefixA], {IdC}, MaxCalls)

\* two limiter instances constructed with different keyPrefix values, and
\* two identifiers
InitNs ==
    InitWith([l \in Limiters |-> IF l = 1 THEN PrefixA ELSE PrefixAB],
             Identifiers, MaxCallsNs)

(* ------------------------ RateLimiter: operations --------------------- *)

\* identifiers that limit(), reset() and getStatus() refuse
IdEmpty == <<>>
IdBlank == <<" ">>
IdBlanks == <<" ", "\t">>

Whitespace == {" ", "\t"}

\* String.prototype.trim(): the string without its leading and trailing
\* white space
RECURSIVE TrimStart(_)
TrimStart(str) ==
    IF str # <<>> /\ Head(str) \in Whitespace THEN TrimStart(Tail(str)) ELSE str

RECURSIVE TrimEnd(_)
TrimEnd(str) ==
    IF str # <<>> /\ str[Len(str)] \in Whitespace
    THEN TrimEnd(SubSeq(str, 1, Len(str) - 1))
    ELSE str

Trim(str) == TrimEnd(TrimStart(str))

EmptyIdentifier == "Identifier cannot be empty"
NotAvailable == "Redis client is not available"
Passed == "passed"

\* the two checks, with the availability of the client checked first
PrecheckAvailFirst(identifier, available) ==
    IF ~available THEN NotAvailable
    ELSE IF identifier = <<>> \/ Trim(identifier) = <<>> THEN EmptyIdentifier
    ELSE Passed

\* the identifier check alone, the availability of the client not checked
PrecheckNoAvail(identifier, available) ==
    IF identifier = <<>> \/ Trim(identifier) = <<>> THEN EmptyIdentifier
    ELSE Passed

\* the checks that open limit(), reset() and getStatus():
\* if (!identifier || identifier.trim() === "") throw ...;
\* if (!this.isRedisAvailable()) throw ...
Precheck(identifier, available) ==
    IF identifier = <<>> \/ Trim(identifier) = <<>> THEN EmptyIdentifier
    ELSE IF ~available THEN NotAvailable
    ELSE Passed

\* one of the three methods throws on its opening checks: call is "limit",
\* "reset" or "getStatus"; nothing is sent to Redis
ThrowsCore(l, id, call) ==
    /\ Precheck(id, avail) # Passed
    /\ ret' = [op |-> "throw", call |-> call, id |-> id,
               error |-> Precheck(id, avail)]
    /\ UNCHANGED <<now, store, prefixOf, ids, calls, todo, nIncr, admitted,
                   returned, nDone, hiLife, firstReset, avail, post,
                   stamps>>

Throws(l, id, call) == ThrowsCore(l, id, call) /\ UNCHANGED outside

\* the Redis client's connection goes down or comes back, between calls
Connection ==
    /\ \A c \in Limiters : calls[c].pc = "idle"
    /\ avail' = ~avail
    /\ ret' = NoRet
    /\ UNCHANGED <<now, store, prefixOf, ids, calls, todo, nIncr, admitted,
                   returned, nDone, hiLife, firstReset, post,
                   stamps, outside>>

\* limit(identifier), up to the first await: the identifier and the client
\* pass the checks, the key is built and fixedWindowLimit reads Date.now()
LimitStartCore(l, id) ==
    /\ todo > 0
    /\ calls[l].pc = "idle"
    /\ Precheck(id, avail) = Passed
    /\ LET k == BuildKey(prefixOf[l], id) IN
       /\ calls' = [calls EXCEPT ![l] =
                    [pc |-> "set", id |-> id, now0 |-> now,
                     count |-> 0, ord |-> 0, cur |-> FALSE,
                     floor |-> hiLife[k], floorAll |-> hiLife[k]]]
       /\ post' = IF post.key = k /\ post.call = NoCall
                  THEN [post EXCEPT !.call = l]
                  ELSE post
    /\ todo' = todo - 1
    /\ ret' = NoRet
    /\ UNCHANGED <<now, store, prefixOf, ids, nIncr, admitted, returned,
                   nDone, hiLife, firstReset, avail,
                   stamps>>

LimitStart(l, id) == LimitStartCore(l, id) /\ UNCHANGED outside

\* await this.redis.set(key, "0", { EX: this.window, NX: true })
LimitSet(c) ==
    /\ calls[c].pc = "set"
    /\ store' = SetNxEx(store, KeyOf(c), 0, WindowSec, now)
    /\ calls' = [calls EXCEPT ![c].pc = "incr"]
    /\ ret' = NoRet
    /\ UNCHANGED <<now, prefixOf, ids, todo, nIncr, admitted, returned,
                   nDone, hiLife, firstReset, avail, post,
                   stamps, outside>>

\* const currentCount = await this.redis.incr(key)
LimitIncr(c) ==
    LET k == KeyOf(c) IN
    /\ calls[c].pc = "incr"
    /\ store' = Incr(store, k)
    /\ nIncr' = [nIncr EXCEPT ![k] = @ + 1]
    /\ calls' = [calls EXCEPT ![c].pc = "ttl",
                              ![c].count = store'[k].val,
                              ![c].ord = nIncr'[k],
                              ![c].cur = TRUE]
    /\ ret' = NoRet
    /\ stamps' = IF stamps.on /\ Allowed(store'[k].val)
                 THEN [stamps EXCEPT !.counted = Recent(Append(@, now), now)]
                 ELSE stamps
    /\ UNCHANGED <<now, prefixOf, ids, todo, admitted, returned, nDone,
                   hiLife, firstReset, avail, post, outside>>

\* const ttl = await this.redis.ttl(key), and the result is returned
LimitTtlCore(c) ==
    LET k == KeyOf(c)
        ttl == Ttl(store, k, now)
        res == LimitResult(calls[c].now0, calls[c].count, ttl)
    IN
    /\ calls[c].pc = "ttl"
    /\ post' = IF post.call = c
               THEN [post EXCEPT !.key = NoKey, !.call = NoCall]
               ELSE post
    /\ ret' = [op |-> "limit", key |-> k, count |-> calls[c].count,
               ord |-> calls[c].ord, live |-> calls[c].cur,
               now0 |-> calls[c].now0, rawTtl |-> ttl, res |-> res]
    /\ admitted' = [admitted EXCEPT ![k] =
                       IF calls[c].cur /\ res.allowed THEN @ + 1 ELSE @]
    /\ returned' = [returned EXCEPT ![k] =
                       IF store[k].ex /\ res.allowed THEN @ + 1 ELSE @]
    /\ nDone' = [nDone EXCEPT ![k] = IF calls[c].cur THEN @ + 1 ELSE @]
    /\ hiLife' = [hiLife EXCEPT ![k] =
                       IF calls[c].cur THEN Max(@, calls[c].count) ELSE @]
    /\ firstReset' = [firstReset EXCEPT ![k] =
                       IF calls[c].cur /\ @ = 0 THEN res.reset ELSE @]
    /\ calls' = [calls EXCEPT ![c] = IdleCall]
    /\ stamps' = IF stamps.on /\ res.allowed
                 THEN [stamps EXCEPT !.returned = Recent(Append(@, now), now)]
                 ELSE stamps
    /\ UNCHANGED <<now, store, prefixOf, ids, todo, nIncr, avail>>

LimitTtl(c) == LimitTtlCore(c) /\ UNCHANGED outside

StoreFailed == "Redis command failed"

\* a failed command answered with a default result, allowed = true
LimitFailsOpen(c) ==
    /\ calls[c].pc \in {"set", "incr", "ttl"}
    /\ ret' = [op |-> "limit", key |-> KeyOf(c), count |-> 0, ord |-> 0,
               live |-> FALSE, now0 |-> calls[c].now0, rawTtl |-> 0,
               res |-> LimitResult(calls[c].now0, 0, 0)]
    /\ calls' = [calls EXCEPT ![c] = IdleCall]
    /\ UNCHANGED <<now, store, prefixOf, ids, todo, nIncr, admitted, returned,
                   nDone, hiLife, firstReset, avail, post,
                   stamps, outside>>

\* a failed command passed over: the call goes on to its next command
LimitFailsGoesOn(c) ==
    /\ calls[c].pc \in {"set", "incr", "ttl"}
    /\ calls' = [calls EXCEPT ![c].pc =
                    IF @ = "set" THEN "incr" ELSE IF @ = "incr" THEN "ttl"
                    ELSE "idle"]
    /\ ret' = NoRet
    /\ UNCHANGED <<now, store, prefixOf, ids, todo, nIncr, admitted, returned,
                   nDone, hiLife, firstReset, avail, post,
                   stamps, outside>>

\* the Redis command a limit() call awaits (set, incr or ttl) is rejected:
\* the await throws, nothing in fixedWindowLimit or limit catches it, and
\* the call ends with that error, no further command sent
LimitFailsCore(c) ==
    /\ calls[c].pc \in {"set", "incr", "ttl"}
    /\ ret' = [op |-> "throw", call |-> "limit", id |-> calls[c].id,
               error |-> StoreFailed, at |-> calls[c].pc]
    /\ calls' = [calls EXCEPT ![c] = IdleCall]
    /\ post' = IF post.call = c
               THEN [post EXCEPT !.key = NoKey, !.call = NoCall]
               ELSE post
    /\ UNCHANGED <<now, store, prefixOf, ids, todo, nIncr, admitted, returned,
                   nDone, hiLife, firstReset, avail,
                   stamps>>

LimitFails(c) == LimitFailsCore(c) /\ UNCHANGED outside

\* the process of a limit() call stops after the reply to its SET and before
\* its INCR is sent: the call never returns
Crash(c) ==
    /\ calls[c].pc = "incr"
    /\ calls' = [calls EXCEPT ![c] = IdleCall]
    /\ ret' = NoRet
    /\ post' = IF post.call = c
               THEN [post EXCEPT !.key = NoKey, !.call = NoCall]
               ELSE post
    /\ UNCHANGED <<now, store, prefixOf, ids, todo, nIncr, admitted, returned,
                   nDone, hiLife, firstReset, avail,
                   stamps, outside>>

\* reset(identifier): const result = await this.redis.del(key);
\* return result > 0
Reset(l, id) ==
    LET k == BuildKey(prefixOf[l], id)
        K == IF store[k].ex THEN {k} ELSE {}
    IN
    /\ Precheck(id, avail) = Passed
    /\ store' = Del(store, k)
    /\ post' = IF post.on THEN [post EXCEPT !.key = k, !.call = NoCall] ELSE post
    /\ ret' = [op |-> "reset", key |-> k, val |-> DelCount(store, k) > 0]
    /\ calls' = CallsAfterEnd(K)
    /\ EndLife(K)
    /\ UNCHANGED <<now, prefixOf, ids, todo, avail,
                   stamps, outside>>

Digits == <<"0", "1", "2", "3", "4", "5", "6", "7", "8", "9">>

\* the decimal string Redis keeps for an integer value
RECURSIVE ToStr(_)
ToStr(n) ==
    IF n < 10 THEN <<Digits[n + 1]>>
    ELSE ToStr(n \div 10) \o <<Digits[(n % 10) + 1]>>

DigitVal(ch) == (CHOOSE i \in 1..10 : Digits[i] = ch) - 1

\* parseInt(currentValue, 10) of a string of decimal digits
RECURSIVE ParseInt(_)
ParseInt(str) ==
    IF Len(str) = 1 THEN DigitVal(str[1])
    ELSE 10 * ParseInt(SubSeq(str, 1, Len(str) - 1)) + DigitVal(str[Len(str)])

\* GET replying "1" whatever the key holds
GetOne(s, k) == <<"1">>

\* GET key: the stored string, or null (here <<>>) for a missing key
Get(s, k) == IF s[k].ex THEN ToStr(s[k].val) ELSE <<>>

\* what getStatus makes of the replies of MULTI [GET key, TTL key]:
\* ttl = results[1] || -1; null when !currentValue || ttl < 0
StatusOf(currentValue, ttlReply) ==
    LET ttl == IF ttlReply = 0 THEN -1 ELSE ttlReply IN
    IF currentValue = <<>> \/ ttl < 0
    THEN [null |-> TRUE, current |-> 0, ttl |-> 0]
    ELSE [null |-> FALSE, current |-> ParseInt(currentValue), ttl |-> ttl]

\* getStatus that creates the key it reads
GetStatusCreate(l, id) ==
    LET k == BuildKey(prefixOf[l], id) IN
    /\ Precheck(id, avail) = Passed
    /\ store' = SetNxEx(store, k, 0, WindowSec, now)
    /\ ret' = [op |-> "status", key |-> k,
               status |-> StatusOf(Get(store, k), Ttl(store, k, now))]
    /\ UNCHANGED <<now, prefixOf, ids, calls, todo, nIncr, admitted,
                   returned, nDone, hiLife, firstReset, avail, post,
                   stamps, outside>>

\* getStatus(identifier): GET and TTL in one MULTI/EXEC
GetStatus(l, id) ==
    LET k == BuildKey(prefixOf[l], id) IN
    /\ Precheck(id, avail) = Passed
    /\ ret' = [op |-> "status", key |-> k,
               status |-> StatusOf(Get(store, k), Ttl(store, k, now))]
    /\ UNCHANGED <<now, store, prefixOf, ids, calls, todo, nIncr, admitted,
                   returned, nDone, hiLife, firstReset, avail, post,
                   stamps, outside>>

\* the clock advances by one step and Redis removes the keys that expired
TickBy(step, last) ==
    LET t == now + step
        K == Expired(store, t)
    IN
    /\ now < last
    /\ now' = t
    /\ store' = [k \in Keys |-> IF k \in K THEN Absent ELSE store[k]]
    /\ calls' = CallsAfterEnd(K)
    /\ ret' = NoRet
    /\ EndLife(K)
    /\ UNCHANGED <<prefixOf, ids, todo, avail, post,
                   stamps, outside>>

Tick == TickBy(TickMs, MaxNow)

\* limit() and reset() calls of both limiters, Redis expiry and the clock
Next ==
    \/ \E l \in Limiters, id \in ids : LimitStart(l, id)
    \/ \E c \in Limiters : LimitSet(c)
    \/ \E c \in Limiters : LimitIncr(c)
    \/ \E c \in Limiters : LimitTtl(c)
    \/ \E l \in Limiters, id \in ids : Reset(l, id)
    \/ Tick

Spec == Init /\ [][Next]_vars

\* the limit() calls and the clock alone: no reset()
NextLimit ==
    \/ \E l \in Limiters, id \in ids : LimitStart(l, id)
    \/ \E c \in Limiters : LimitSet(c)
    \/ \E c \in Limiters : LimitIncr(c)
    \/ \E c \in Limiters : LimitTtl(c)
    \/ Tick

SpecLimit == Init /\ [][NextLimit]_vars

\* limit(), reset() and getStatus() calls within one instant of the clock
NextCalls ==
    \/ \E l \in Limiters, id \in ids : LimitStart(l, id)
    \/ \E c \in Limiters : LimitSet(c)
    \/ \E c \in Limiters : LimitIncr(c)
    \/ \E c \in Limiters : LimitTtl(c)
    \/ \E l \in Limiters, id \in ids : Reset(l, id)
    \/ \E l \in Limiters, id \in ids : GetStatus(l, id)

SpecNs == InitNs /\ [][NextCalls]_vars

\* two limiter instances with the same keyPrefix, one identifier, and the
\* first limit() call issued after each reset() followed
InitReset == InitAll([l \in Limiters |-> PrefixA], {IdC}, MaxCallsReset, PostOn)

\* limit() and reset() calls within one instant of the clock
NextReset ==
    \/ \E l \in Limiters, id \in ids : LimitStart(l, id)
    \/ \E c \in Limiters : LimitSet(c)
    \/ \E c \in Limiters : LimitIncr(c)
    \/ \E c \in Limiters : LimitTtl(c)
    \/ \E l \in Limiters, id \in ids : Reset(l, id)

SpecReset == InitReset /\ [][NextReset]_vars

\* limit(), reset() and getStatus() calls of both limiters for one
\* identifier, Redis expiry and the clock
InitStatus == InitWith([l \in Limiters |-> PrefixA], {IdC}, MaxCallsStatus)

NextStatus ==
    \/ \E l \in Limiters, id \in ids : LimitStart(l, id)
    \/ \E c \in Limiters : LimitSet(c)
    \/ \E c \in Limiters : LimitIncr(c)
    \/ \E c \in Limiters : LimitTtl(c)
    \/ \E l \in Limiters, id \in ids : Reset(l, id)
    \/ \E l \in Limiters, id \in ids : GetStatus(l, id)
    \/ Tick

SpecStatus == InitStatus /\ [][NextStatus]_vars

\* the three methods called with valid, empty and blank identifiers while
\* the Redis client's connection comes and goes
InitErr ==
    InitWith([l \in Limiters |-> PrefixA], {IdC, IdEmpty, IdBlank, IdBlanks},
             MaxCallsErr)

NextErr ==
    \/ \E l \in Limiters, id \in ids : LimitStart(l, id)
    \/ \E c \in Limiters : LimitSet(c)
    \/ \E c \in Limiters : LimitIncr(c)
    \/ \E c \in Limiters : LimitTtl(c)
    \/ \E l \in Limiters, id \in ids : Reset(l, id)
    \/ \E l \in Limiters, id \in ids : GetStatus(l, id)
    \/ \E l \in Limiters, id \in ids :
          \E call \in {"limit", "reset", "getStatus"} : Throws(l, id, call)
    \/ Connection

SpecErr == InitErr /\ [][NextErr]_vars

\* limit() calls of both limiters for one identifier, any of whose Redis
\* commands can fail
InitFail == InitWith([l \in Limiters |-> PrefixA], {IdC}, MaxCallsFail)

NextFail ==
    \/ \E l \in Limiters, id \in ids : LimitStart(l, id)
    \/ \E c \in Limiters : LimitSet(c)
    \/ \E c \in Limiters : LimitIncr(c)
    \/ \E c \in Limiters : LimitTtl(c)
    \/ \E c \in Limiters : LimitFails(c)

SpecFail == InitFail /\ [][NextFail]_vars

\* limit() calls of both limiters for one identifier, whose processes can
\* stop between SET and INCR
InitCrash == InitWith([l \in Limiters |-> PrefixA], {IdC}, MaxCallsCrash)

NextCrash ==
    \/ \E l \in Limiters, id \in ids : LimitStart(l, id)
    \/ \E c \in Limiters : LimitSet(c)
    \/ \E c \in Limiters : LimitIncr(c)
    \/ \E c \in Limiters : LimitTtl(c)
    \/ \E c \in Limiters : Crash(c)

SpecCrash == InitCrash /\ [][NextCrash]_vars

\* bursts of limit() calls of both limiters for one identifier, over three
\* lifetimes of its key, with the times of the allowed calls kept
InitBurst ==
    /\ InitCore([l \in Limiters |-> PrefixA], {IdC}, MaxCallsBurst, PostOff)
    /\ stamps = StampsOn
    /\ config = DefaultConfig
    /\ made = NotMade
    /\ options = DefaultOptions
    /\ mw = NoRequests

TickBurst == TickBy(BurstTickMs, MaxNowBurst)

NextBurst ==
    \/ \E l \in Limiters, id \in ids : LimitStart(l, id)
    \/ \E c \in Limiters : LimitSet(c)
    \/ \E c \in Limiters : LimitIncr(c)
    \/ \E c \in Limiters : LimitTtl(c)
    \/ TickBurst

SpecBurst == InitBurst /\ [][NextBurst]_vars

(* ----------------------------- constructor ---------------------------- *)

RedisRequired == "Redis client is required"
LimitNotPositive == "Limit must be a positive number"
WindowNotPositive == "Window must be a positive number (in seconds)"
PrefixRequired == "Key prefix is required"
Valid == "valid"
Created == "created"

\* !x of a number option: undefined and 0 are falsy
FalsyNumber(opt) == ~opt.given \/ opt.v = 0
\* !x of a string option: undefined and "" are falsy
FalsyString(opt) == ~opt.given \/ opt.v = <<>>

\* the key prefix check without the trim()
ValidateConfigNoTrim(cfg) ==
    IF ~cfg.redis THEN RedisRequired
    ELSE IF FalsyNumber(cfg.limit) \/ cfg.limit.v <= 0 THEN LimitNotPositive
    ELSE IF FalsyNumber(cfg.window) \/ cfg.window.v <= 0 THEN WindowNotPositive
    ELSE IF FalsyString(cfg.keyPrefix) THEN PrefixRequired
    ELSE Valid

\* private validateConfig(config): the message of the error it throws, or
\* Valid when it returns
ValidateConfig(cfg) ==
    IF ~cfg.redis THEN RedisRequired
    ELSE IF FalsyNumber(cfg.limit) \/ cfg.limit.v <= 0 THEN LimitNotPositive
    ELSE IF FalsyNumber(cfg.window) \/ cfg.window.v <= 0 THEN WindowNotPositive
    ELSE IF FalsyString(cfg.keyPrefix) \/ Trim(cfg.keyPrefix.v) = <<>>
         THEN PrefixRequired
    ELSE Valid

\* new RateLimiter(config): throws what validateConfig throws, and otherwise
\* takes its fields from the configuration
Construct ==
    /\ made = NotMade
    /\ made' = IF ValidateConfig(config) = Valid THEN Created
               ELSE ValidateConfig(config)
    /\ prefixOf' = IF ValidateConfig(config) = Valid
                   THEN [l \in Limiters |-> config.keyPrefix.v]
                   ELSE prefixOf
    /\ UNCHANGED <<now, store, calls, ids, todo, ret, nIncr, admitted,
                   returned, nDone, hiLife, firstReset, avail, post, stamps,
                   config, options, mw>>

\* the values of limit and of window handed to the constructor
NumberOptions == {MissingNumber} \cup {Given(n) : n \in -1 .. Quota}
\* the values of keyPrefix handed to the constructor
PrefixOptions ==
    {Missing} \cup {Given(p) : p \in {IdEmpty, IdBlank, IdBlanks, PrefixA,
                                       <<" ", "a">>, <<"a", " ">>}}

Configs ==
    [redis : BOOLEAN, limit : NumberOptions, window : NumberOptions,
     keyPrefix : PrefixOptions]

\* one construction, from any of the configurations
InitCtor ==
    /\ InitCore([l \in Limiters |-> PrefixA], {IdC}, 0, PostOff)
    /\ stamps = StampsOff
    /\ config \in Configs
    /\ made = NotMade
    /\ options = DefaultOptions
    /\ mw = NoRequests

NextCtor == Construct

SpecCtor == InitCtor /\ [][NextCtor]_vars

(* ------------------------- Express middleware ------------------------- *)

\* the request headers and the socket address that extractClientIp reads
V4Mapped == <<":", ":", "f", "f", "f", "f", ":">>
Unknown == <<"u", "n", "k", "n", "o", "w", "n">>

StartsWith(str, pre) ==
    /\ Len(str) >= Len(pre)
    /\ SubSeq(str, 1, Len(pre)) = pre

\* ips.split(",")[0]
RECURSIVE FirstField(_)
FirstField(str) ==
    IF str = <<>> \/ Head(str) = "," THEN <<>>
    ELSE <<Head(str)>> \o FirstField(Tail(str))

\* extractClientIp(req), for headers that are strings
ExtractClientIp(req) ==
    LET firstIp == Trim(FirstField(req.xff.v)) IN
    IF req.xff.given /\ req.xff.v # <<>> /\ firstIp # <<>> THEN firstIp
    ELSE IF req.realIp.given /\ req.realIp.v # <<>> THEN Trim(req.realIp.v)
    ELSE IF req.socket.given /\ req.socket.v # <<>> THEN req.socket.v
    ELSE Unknown

\* normalizeIp(ip)
NormalizeIp(ip) ==
    IF StartsWith(ip, V4Mapped) THEN SubSeq(ip, Len(V4Mapped) + 1, Len(ip))
    ELSE ip

\* getDefaultIdentifier(req)
GetDefaultIdentifier(req) == NormalizeIp(ExtractClientIp(req))

\* the requests served: the address comes from the socket, plain or IPv4
\* mapped or the mapping prefix alone, from X-Forwarded-For, or from
\* X-Real-IP, which can be blank
Requests ==
    {[xff |-> Missing, realIp |-> Missing, socket |-> Given(IdC)],
     [xff |-> Missing, realIp |-> Missing, socket |-> Given(V4Mapped \o IdC)],
     [xff |-> Missing, realIp |-> Missing, socket |-> Given(V4Mapped)],
     [xff |-> Given(<<" ", "c", ",", "b">>), realIp |-> Missing,
      socket |-> Given(IdBC)],
     [xff |-> Given(<<" ", ",", "b">>), realIp |-> Given(<<"c", " ">>),
      socket |-> Given(IdBC)],
     [xff |-> Missing, realIp |-> Given(IdBlank), socket |-> Given(IdC)]}

\* what the identifier option's function does with a request: it throws, or
\* it returns a string; the empty string stands for every falsy value
CustomOutcomes ==
    {[throws |-> TRUE, v |-> <<>>], [throws |-> FALSE, v |-> <<>>],
     [throws |-> FALSE, v |-> IdC], [throws |-> FALSE, v |-> IdBlank]}

\* what the skip option's function does with a request
SkipOutcomes == {"false", "true", "throws"}

\* the outcomes of the two functions in a middleware made with options opts:
\* a function that is not given has none
SkipOutcomesOf(opts) == IF opts.skip THEN SkipOutcomes ELSE {"false"}
CustomOutcomesOf(opts) ==
    IF opts.identifier THEN CustomOutcomes
    ELSE {[throws |-> FALSE, v |-> <<>>]}

\* clientIdentifier = customId || getDefaultIdentifier(req)
ClientIdentifier(custom, req) ==
    IF options.identifier /\ custom.v # <<>> THEN custom.v
    ELSE GetDefaultIdentifier(req)

\* what the extraction of the identifier comes to for one request: the
\* identifier function throws, or clientIdentifier gets its value
IdOutcome(custom, req) ==
    IF options.identifier /\ custom.throws THEN [throws |-> TRUE, id |-> <<>>]
    ELSE [throws |-> FALSE, id |-> ClientIdentifier(custom, req)]

IdOutcomes ==
    {IdOutcome(custom, req) :
        custom \in CustomOutcomesOf(options), req \in Requests}

\* failStrategy defaulting to "closed"
FailStrategyDefaultClosed ==
    IF options.failStrategy = Unset THEN "closed" ELSE options.failStrategy

\* failStrategy = "open" by default
FailStrategy ==
    IF options.failStrategy = Unset THEN "open" ELSE options.failStrategy

\* standardHeaders = true by default
StandardHeaders == options.standardHeaders \in {Unset, "on"}

\* setRateLimitHeaders that writes Retry-After whether it is given or not
SetRateLimitHeadersAlwaysRetry(limit, remaining, reset, retryAfter) ==
    [set |-> TRUE, limit |-> ToStr(limit), remaining |-> ToStr(remaining),
     reset |-> ToStr(reset), retryAfter |-> Given(ToStr(retryAfter.v))]

\* setRateLimitHeaders(res, info)
SetRateLimitHeaders(limit, remaining, reset, retryAfter) ==
    [set |-> TRUE, limit |-> ToStr(limit), remaining |-> ToStr(remaining),
     reset |-> ToStr(reset),
     retryAfter |-> IF retryAfter.given THEN Given(ToStr(retryAfter.v))
                    ELSE Missing]

\* res.status(503).json({ error: "Service temporarily unavailable. ..." })
Send503(m) ==
    [m EXCEPT !.status = 503, !.body = [NoBody EXCEPT !.kind = "unavailable"],
              !.pc = "done"]

\* the outer catch block: 503 when failing closed, next() otherwise, and an
\* exception of that next() leaves the middleware
OuterCatch(m) ==
    IF FailStrategy = "closed" THEN Send503(m)
    ELSE [m EXCEPT !.nextCalls = @ + 1, !.rejected = m.nextThrows,
                   !.pc = "done"]

\* next() called inside the outer try block: its exception is caught there
CallNext(m) ==
    LET called == [m EXCEPT !.nextCalls = @ + 1] IN
    IF m.nextThrows THEN OuterCatch(called) ELSE [called EXCEPT !.pc = "done"]

\* a catch block around limiter.limit() that passes every request on
InnerCatchOpen(m) == CallNext(m)

\* the catch block around limiter.limit()
InnerCatch(m) ==
    IF FailStrategy = "closed" THEN Send503(m) ELSE CallNext(m)

\* a middleware that passes every request with a result on
AfterLimitPassesAll(m, result) == CallNext(m)

\* the middleware after limiter.limit() has returned result
AfterLimit(m, result) ==
    LET retryAfter == IF result.allowed THEN MissingNumber
                      ELSE Given(result.ttl)
        m1 == IF StandardHeaders
              THEN [m EXCEPT !.headers =
                       SetRateLimitHeaders(result.limit, result.remaining,
                                           result.reset, retryAfter)]
              ELSE m
    IN  IF ~result.allowed
        THEN [m1 EXCEPT !.status = 429,
                        !.body = [kind |-> "limited",
                                  retryAfter |-> result.ttl,
                                  limit |-> result.limit,
                                  remaining |-> result.remaining,
                                  reset |-> result.reset],
                        !.pc = "done"]
        ELSE CallNext(m1)

\* invocation r goes on to m; of the invocations that have ended only the
\* last one is kept
Settle(r, m) ==
    [x \in Limiters |->
        IF x = r THEN m
        ELSE IF mw[x].pc = "done" THEN NewRequest(FALSE)
        ELSE mw[x]]

\* an invocation that ends without a call of the limiter
MwLocal(r, m) ==
    /\ mw' = Settle(r, m)
    /\ UNCHANGED <<now, store, prefixOf, ids, calls, todo, ret, nIncr,
                   admitted, returned, nDone, hiLife, firstReset, avail, post,
                   stamps>>

\* a middleware that calls the limiter before it looks at the skip function
MwRequestSkipLate(r, skipOut, idOut, nextThrows) ==
    /\ mw[r].pc # "calling"
    /\ calls[r].pc = "idle"
    /\ options.skip /\ skipOut = "true"
    /\ ~idOut.throws
    /\ LimitStartCore(r, idOut.id)
    /\ mw' = Settle(r, CallNext([NewRequest(nextThrows) EXCEPT
                                    !.skipped = TRUE]))
    /\ UNCHANGED <<config, made, options>>

\* the middleware is invoked with a request, and runs up to its first await:
\* the skip function, the identifier, and limiter.limit() up to its own
\* first await
MwRequest(r, skipOut, idOut, nextThrows) ==
    LET m == NewRequest(nextThrows)
        id == idOut.id
    IN
    /\ mw[r].pc # "calling"
    /\ calls[r].pc = "idle"
    /\ IF options.skip /\ skipOut = "throws"
       THEN MwLocal(r, OuterCatch([m EXCEPT !.cause = "skipThrew"]))
       ELSE IF options.skip /\ skipOut = "true"
       THEN MwLocal(r, CallNext([m EXCEPT !.skipped = TRUE]))
       ELSE IF idOut.throws
       THEN MwLocal(r, OuterCatch([m EXCEPT !.cause = "identifierThrew"]))
       ELSE IF Precheck(id, avail) # Passed
       THEN /\ ThrowsCore(r, id, "limit")
            /\ mw' = Settle(r, InnerCatch([m EXCEPT
                                               !.id = id,
                                               !.cause = "limitThrew",
                                               !.error = Precheck(id, avail)]))
       ELSE /\ LimitStartCore(r, id)
            /\ mw' = Settle(r, [m EXCEPT !.id = id, !.pc = "calling"])
    /\ UNCHANGED <<config, made, options>>

\* the TTL reply arrives, limiter.limit() returns and the middleware goes on
\* to its end
MwReturn(r) ==
    /\ mw[r].pc = "calling"
    /\ LimitTtlCore(r)
    /\ mw' = Settle(r, AfterLimit(mw[r], ret'.res))
    /\ UNCHANGED <<config, made, options>>

\* a Redis command of limiter.limit() is rejected, limit() throws and the
\* middleware goes on in its catch block
MwFails(r) ==
    /\ mw[r].pc = "calling"
    /\ LimitFailsCore(r)
    /\ mw' = Settle(r, InnerCatch([mw[r] EXCEPT !.cause = "limitThrew",
                                                !.error = StoreFailed]))
    /\ UNCHANGED <<config, made, options>>

\* limit() calls issued through one middleware
MaxCallsMw == 2

\* the options a middleware is made with
OptionSets ==
    [failStrategy : {Unset, "open", "closed"},
     standardHeaders : {Unset, "on", "off"},
     skip : BOOLEAN, identifier : BOOLEAN]

\* a middleware made by rateLimit(options), serving requests two at a time
InitMw ==
    /\ InitCore([l \in Limiters |-> PrefixA], {IdC}, MaxCallsMw, PostOff)
    /\ stamps = StampsOff
    /\ config = DefaultConfig
    /\ made = Created
    /\ options \in OptionSets
    /\ mw = NoRequests

NextMw ==
    \/ \E r \in Limiters, skipOut \in SkipOutcomesOf(options),
          idOut \in IdOutcomes, nextThrows \in BOOLEAN :
          MwRequest(r, skipOut, idOut, nextThrows)
    \/ \E c \in Limiters : LimitSet(c)
    \/ \E c \in Limiters : LimitIncr(c)
    \/ \E r \in Limiters : MwReturn(r)
    \/ \E r \in Limiters : MwFails(r)
    \/ Connection

SpecMw == InitMw /\ [][NextMw]_vars

\* limit() calls issued through a middleware whose Redis commands succeed
MaxCallsServe == 3

\* its clock makes this many steps of BurstTickMs: the last one ends the
\* lifetime of a key made at the start
MaxTicksServe == 2
MaxNowServe == MaxTicksServe * BurstTickMs

TickServe == TickBy(BurstTickMs, MaxNowServe)

\* the options of the middlewares that take the identifier from the address
\* and skip nothing
ServeOptionSets ==
    [failStrategy : {Unset, "closed"}, standardHeaders : {Unset, "off"},
     skip : {FALSE}, identifier : {FALSE}]

\* a middleware over a Redis server that answers every command, serving
\* requests two at a time while the clock advances and keys expire
InitServe ==
    /\ InitCore([l \in Limiters |-> PrefixA], {IdC}, MaxCallsServe, PostOff)
    /\ stamps = StampsOff
    /\ config = DefaultConfig
    /\ made = Created
    /\ options \in ServeOptionSets
    /\ mw = NoRequests

NextServe ==
    \/ \E r \in Limiters, skipOut \in SkipOutcomesOf(options),
          idOut \in IdOutcomes, nextThrows \in BOOLEAN :
          MwRequest(r, skipOut, idOut, nextThrows)
    \/ \E c \in Limiters : LimitSet(c)
    \/ \E c \in Limiters : LimitIncr(c)
    \/ \E r \in Limiters : MwReturn(r)
    \/ TickServe

SpecServe == InitServe /\ [][NextServe]_vars

(* ------------------------------- claims ------------------------------- *)

\* the limit() calls past their INCR whose increment fell in the present
\* lifetime of key k
Counted(k) ==
    {c \in Limiters : calls[c].pc = "ttl" /\ calls[c].cur /\ KeyOf(c) = k}

\* C1 as stated: at most Quota calls for one identifier return allowed=true
\* during one lifetime of the identifier's counter key (counting every call
\* by the moment it returns).
C1_ReturnedDuringLifetime ==
    \A k \in Keys : returned[k] <= Quota

\* C1 amended: at most Quota calls whose increment falls in one lifetime of
\* the counter key return allowed=true, whichever limiter instance issues
\* them and however their steps, resets and expiry interleave.
C1_AtMostQuotaPerLifetime ==
    \A k \in Keys :
        admitted[k] + Cardinality({c \in Counted(k) : calls[c].count <= Quota})
            <= Quota

\* C1 witness: the quota of a lifetime is used up and a further call counted
\* in the same lifetime has just been rejected.
C1_Witness ==
    /\ ret.op = "limit" /\ ret.live /\ ~ret.res.allowed
    /\ admitted[ret.key] = Quota

\* C2: within one window (one lifetime of the key) the calls whose increments
\* are the first Quota ones return allowed=true, the one whose increment is
\* the (Quota+1)th and every later one return allowed=false.
C2_AdmissionThreshold ==
    ret.op = "limit" => (ret.res.allowed <=> ret.ord <= Quota)

\* C2 witness: the (Quota+2)th call of a window has just been rejected.
C2_Witness ==
    ret.op = "limit" /\ ret.ord = Quota + 2 /\ ~ret.res.allowed

\* C3: K calls for one identifier that are in flight together, K <= Quota,
\* and that are all the calls of the window so far, hold exactly the counts
\* 1..K, one each, and each of them is about to return allowed=true.
C3_ConcurrentCounts ==
    \A k \in Keys :
        LET S == Counted(k) IN
        (nIncr[k] = Cardinality(S) /\ Cardinality(S) <= Quota) =>
            /\ {calls[c].count : c \in S} = 1..Cardinality(S)
            /\ \A c, d \in S : c # d => calls[c].count # calls[d].count
            /\ \A c \in S :
                 LimitResult(calls[c].now0, calls[c].count,
                             Ttl(store, k, now)).allowed

\* C3 witness: both limiters have a call past its INCR on the same fresh key.
C3_Witness ==
    \E k \in Keys : nIncr[k] = 2 /\ Cardinality(Counted(k)) = 2

\* C4 as stated: the Nth call of a window in completion order observes
\* currentCount = N.
C4_CompletionOrder ==
    (ret.op = "limit" /\ ret.live) => ret.count = nDone[ret.key]

\* C4 amended: the call whose increment is the Nth of the window observes
\* currentCount = N and reports remaining = max(0, Quota - N).
C4_IncrementOrder ==
    ret.op = "limit" =>
        /\ ret.count = ret.ord
        /\ ret.res.remaining = (IF Quota - ret.ord > 0 THEN Quota - ret.ord ELSE 0)

\* C4 witness: a call past the quota has returned remaining 0.
C4_Witness ==
    ret.op = "limit" /\ ret.ord = Quota + 1 /\ ret.res.remaining = 0

\* the step is one of limiter l's for identifier a: a step of its limit()
\* call, or its reset() or getStatus()
ActsOn(l, a) ==
    /\ now' = now
    /\ \/ /\ calls'[l].pc # calls[l].pc
          /\ a = (IF calls[l].pc = "idle" THEN calls'[l].id ELSE calls[l].id)
       \/ /\ calls' = calls
          /\ ret'.op \in {"reset", "status"}
          /\ ret'.key = BuildKey(prefixOf[l], a)

\* C5: a limit(), reset() or getStatus() step of a limiter for identifier A
\* leaves the counter of every other identifier B of that limiter (its value,
\* its expiry, what was counted in its window) unchanged.
C5_IdentifierIsolation ==
    [][\A l \in Limiters : \A a \in ids : \A b \in ids \ {a} :
          ActsOn(l, a) =>
              LET kb == BuildKey(prefixOf[l], b) IN
              /\ store'[kb] = store[kb]
              /\ nIncr'[kb] = nIncr[kb]
              /\ admitted'[kb] = admitted[kb]]_vars

\* C5 witness: after one call for "c" the first call for "b:c" of the same
\* limiter has returned with the whole quota but one remaining.
C5_Witness ==
    /\ ret.op = "limit" /\ ret.key = BuildKey(PrefixA, IdBC)
    /\ ret.res.remaining = Quota - 1
    /\ store[BuildKey(PrefixA, IdC)].ex /\ store[BuildKey(PrefixA, IdC)].val = 1

\* C6: two limiters constructed with different keyPrefix values never work
\* on the same Redis key, whatever identifiers they are called with.
C6_NamespacesDisjoint ==
    \A c, d \in Limiters :
        (calls[c].pc # "idle" /\ calls[d].pc # "idle"
            /\ prefixOf[c] # prefixOf[d]) => KeyOf(c) # KeyOf(d)

\* C7: every counter key in Redis has an expiry, and what remains of it is at
\* most the window.
C7_EveryKeyExpires ==
    \A k \in Keys :
        store[k].ex =>
            /\ store[k].exp # NoExpiry
            /\ store[k].exp - now <= WindowSec * 1000

\* C8: no identifier stays rejected forever: a counter that has passed the
\* quota (every call on it is rejected) has an expiry, so that after at most
\* one window the key is gone and the next call recreates it with count 1.
C8_RejectionEnds ==
    \A k \in Keys :
        (store[k].ex /\ store[k].val > Quota) => store[k].exp # NoExpiry

\* C9: the reset time a call reports is the one the first call counted in
\* the same window reported, within one second.
C9_SameResetInWindow ==
    (ret.op = "limit" /\ ret.live /\ firstReset[ret.key] # 0) =>
        /\ ret.res.reset - firstReset[ret.key] <= 1
        /\ firstReset[ret.key] - ret.res.reset <= 1

\* C10 as stated: a call B issued after a call A for the same identifier
\* completed observes a count of at least A's count + 1.
C10_LaterCallCountsHigher ==
    \A c \in Limiters :
        (calls[c].pc = "ttl" /\ calls[c].floorAll > 0) =>
            calls[c].count >= calls[c].floorAll + 1

\* C10 amended: ... provided the key is neither deleted nor expired between
\* A's increment and B's increment.
C10_HigherInSameLifetime ==
    \A c \in Limiters :
        (calls[c].pc = "ttl" /\ calls[c].floor > 0) =>
            calls[c].count >= calls[c].floor + 1

\* C10 witness: B was issued after A completed with count 1, a third call
\* was counted in between, and B observes 3.
C10_Witness ==
    \E c \in Limiters :
        calls[c].pc = "ttl" /\ calls[c].floor = 1 /\ calls[c].count = 3

\* C11 as stated: no two limit() calls on one identifier that overlap in time
\* receive the same post-increment value.
C11_OverlappingDistinct ==
    \A c, d \in Limiters :
        (c # d /\ calls[c].pc = "ttl" /\ calls[d].pc = "ttl"
            /\ KeyOf(c) = KeyOf(d)) => calls[c].count # calls[d].count

\* C11 amended: within one lifetime of the counter key, overlapping limit()
\* calls receive distinct post-increment values, ordered as their increments.
C11_DistinctInLifetime ==
    \A k \in Keys : \A c, d \in Counted(k) :
        c # d =>
            /\ calls[c].count # calls[d].count
            /\ (calls[c].ord < calls[d].ord) <=> (calls[c].count < calls[d].count)

\* C11 witness: two overlapping calls counted in one lifetime hold 2 and 3.
C11_Witness ==
    \E k \in Keys : \E c, d \in Counted(k) :
        calls[c].count = 2 /\ calls[d].count = 3

\* C12: limit() never decrements the counter: while a key exists its stored
\* value never decreases, the INCR of a call adds one to an existing key even
\* when the value is already past the quota, and a call issued after a
\* rejected call completed, in the same lifetime of the key, is rejected.
C12_NeverRolledBack ==
    /\ [](\A c \in Limiters :
            (calls[c].pc = "ttl" /\ calls[c].floor > Quota) =>
                ~Allowed(calls[c].count))
    /\ [][\A k \in Keys :
            (store[k].ex /\ store'[k].ex) => store'[k].val >= store[k].val]_vars
    /\ [][\A c \in Limiters :
            (calls[c].pc = "incr" /\ calls'[c].pc = "ttl" /\ store[KeyOf(c)].ex)
                => store'[KeyOf(c)].val = store[KeyOf(c)].val + 1]_vars

\* C12 witness: a call issued after a rejected call (count Quota + 1)
\* completed has itself been counted, as Quota + 2.
C12_Witness ==
    \E c \in Limiters :
        /\ calls[c].pc = "ttl" /\ calls[c].floor = Quota + 1
        /\ calls[c].count = Quota + 2 /\ store[KeyOf(c)].val = Quota + 2

\* C13: every limit() result has limit = quota, remaining = max(0, quota -
\* currentCount), 0 <= remaining <= limit and allowed = (currentCount <=
\* quota); remaining is 0 when currentCount > quota.
C13_ResultShape ==
    ret.op = "limit" =>
        /\ ret.res.limit = Quota
        /\ ret.res.remaining = (IF Quota - ret.count > 0 THEN Quota - ret.count ELSE 0)
        /\ 0 <= ret.res.remaining /\ ret.res.remaining <= ret.res.limit
        /\ ret.res.allowed <=> (ret.count <= Quota)
        /\ (ret.count > Quota => ret.res.remaining = 0)

\* C13 witness: a result for currentCount = Quota + 2 with remaining 0.
C13_Witness ==
    /\ ret.op = "limit" /\ ret.count = Quota + 2
    /\ ret.res.remaining = 0 /\ ~ret.res.allowed

\* C14: reset(identifier) removes the identifier's key and nothing else, and
\* returns true exactly when the key existed; when no key existed it returns
\* false and changes nothing, and a reset that directly follows a reset of
\* the same identifier returns false.
C14_ResetResult ==
    [][ret'.op = "reset" =>
          /\ ret'.val = store[ret'.key].ex
          /\ ~store'[ret'.key].ex
          /\ \A k \in Keys \ {ret'.key} : store'[k] = store[k]
          /\ (~store[ret'.key].ex => (store' = store /\ ~ret'.val))
          /\ ((ret.op = "reset" /\ ret.key = ret'.key) => ~ret'.val)]_vars

\* C14 witness: a reset has returned true and its key is gone.
C14_Witness ==
    ret.op = "reset" /\ ret.val /\ ~store[ret.key].ex

\* C15: the first limit() call issued after reset(identifier) returned, once
\* past its INCR, holds count 1, is about to return remaining = quota - 1 and
\* allowed = true, and the key has a time-to-live of the whole window - also
\* when other limit() calls for the identifier were in flight during the
\* reset.
C15_FreshWindowAfterReset ==
    \A c \in Limiters :
        (post.call = c /\ calls[c].pc = "ttl") =>
            LET k == KeyOf(c)
                res == LimitResult(calls[c].now0, calls[c].count,
                                   Ttl(store, k, now))
            IN
            /\ calls[c].count = 1
            /\ res.remaining = Quota - 1
            /\ res.allowed
            /\ Ttl(store, k, now) = WindowSec

\* C16: getStatus(identifier) returns null when no limit() call has been made
\* yet, and when it is the call that directly follows reset(identifier).
C16_StatusNullWhenFresh ==
    [][(ret'.op = "status"
          /\ (todo = MaxCallsNs \/ (ret.op = "reset" /\ ret.key = ret'.key)))
        => ret'.status.null]_vars

\* C16 witness: getStatus has returned null for a key that a reset() removed
\* while a limit() call for it was past its SET.
C16_Witness ==
    /\ ret.op = "status" /\ ret.status.null /\ ~store[ret.key].ex
    /\ \E c \in Limiters : calls[c].pc = "incr" /\ KeyOf(c) = ret.key

\* C17: getStatus(identifier) returns null exactly when the key is absent or
\* TTL replies a negative value; in every other case, a TTL reply of 0
\* included, it returns the stored count and the TTL reply.
C17_StatusNullExactly ==
    ret.op = "status" =>
        LET absent == ~store[ret.key].ex
            ttl == Ttl(store, ret.key, now)
        IN
        /\ ret.status.null <=> (absent \/ ttl < 0)
        /\ ~ret.status.null =>
              (ret.status.current = store[ret.key].val /\ ret.status.ttl = ttl)

\* C18: getStatus() is read-only: the step leaves every key's value and
\* expiry as they were, creates no key and deletes none.
C18_StatusReadOnly ==
    [][ret'.op = "status" =>
          /\ store' = store
          /\ nIncr' = nIncr
          /\ calls' = calls]_vars

\* C18 witness: getStatus has returned the count of a key that is still
\* there with the same count and an expiry.
C18_Witness ==
    /\ ret.op = "status" /\ ~ret.status.null
    /\ store[ret.key].ex /\ store[ret.key].val = ret.status.current
    /\ store[ret.key].exp # NoExpiry

\* C19: a non-null result of getStatus() is the (count, ttl) pair the key
\* held at the one instant of the MULTI/EXEC, whatever limit(), reset() and
\* expiry steps come before and after; a key that is gone at that instant
\* yields null.
C19_StatusAtomicPair ==
    [][ret'.op = "status" =>
          /\ ~ret'.status.null =>
                /\ store[ret'.key].ex
                /\ ret'.status.current = store[ret'.key].val
                /\ ret'.status.ttl = Ttl(store, ret'.key, now)
          /\ ~store[ret'.key].ex => ret'.status.null]_vars

\* C19 witness: getStatus has returned count 2 while a limit() call for the
\* key is between its INCR and its TTL.
C19_Witness ==
    /\ ret.op = "status" /\ ~ret.status.null /\ ret.status.current = 2
    /\ \E c \in Limiters : calls[c].pc = "ttl" /\ KeyOf(c) = ret.key

\* C20: limit(), reset() and getStatus() called with an empty or
\* white-space-only identifier throw 'Identifier cannot be empty' and leave
\* the store as it was, whether or not the Redis client is available; no
\* limit() call is in flight, and no reset() or getStatus() has answered, for
\* such an identifier.
C20_BlankIdentifierRejected ==
    /\ [](\A c \in Limiters :
            calls[c].pc # "idle" => Trim(calls[c].id) # <<>>)
    /\ [](ret.op \in {"reset", "status"} =>
            \E l \in Limiters : \E id \in ids :
                Trim(id) # <<>> /\ ret.key = BuildKey(prefixOf[l], id))
    /\ [][(ret'.op = "throw" /\ Trim(ret'.id) = <<>>) =>
            /\ ret'.error = EmptyIdentifier
            /\ store' = store
            /\ calls' = calls
            /\ nIncr' = nIncr]_vars

\* C20 witness: getStatus with a white-space-only identifier has thrown
\* 'Identifier cannot be empty' while the client is unavailable and a counter
\* exists.
C20_Witness ==
    /\ ret.op = "throw" /\ ret.call = "getStatus" /\ ret.id = IdBlanks
    /\ ret.error = EmptyIdentifier /\ ~avail
    /\ \E k \in Keys : store[k].ex /\ store[k].val = 2

\* C21: while the Redis client is not open and ready, limit(), reset() and
\* getStatus() with a valid identifier throw 'Redis client is not available',
\* and every call made in that time leaves the store, the counts and the
\* calls in flight as they were: no command is sent.
C21_UnavailableRejected ==
    /\ [][(ret'.op = "throw" /\ Trim(ret'.id) # <<>>) =>
            /\ ~avail
            /\ ret'.error = NotAvailable
            /\ store' = store /\ nIncr' = nIncr /\ calls' = calls]_vars
    /\ [][(~avail /\ avail' = avail) =>
            (ret'.op = "throw" /\ store' = store /\ nIncr' = nIncr
                /\ calls' = calls)]_vars

\* C21 witness: limit("c") has thrown 'Redis client is not available' while
\* the counter of "c" holds 1.
C21_Witness ==
    /\ ret.op = "throw" /\ ret.call = "limit" /\ ret.id = IdC
    /\ ret.error = NotAvailable /\ ~avail
    /\ store[BuildKey(PrefixA, IdC)].ex /\ store[BuildKey(PrefixA, IdC)].val = 1

\* C24: the key a limit() call works on is the keyPrefix, a colon and the
\* identifier, with nothing before the keyPrefix.
C24_KeyIsPrefixColonIdentifier ==
    \A c \in Limiters :
        calls[c].pc # "idle" => KeyOf(c) = prefixOf[c] \o Colon \o calls[c].id

\* C27: the reset time of a limit() result is the clock the call read before
\* its first Redis command plus the TTL reply when that is positive, plus the
\* window otherwise (in whole seconds, rounded up); the TTL used is the reply
\* to the call's own TTL command.
C27_ResetTimeFromStartClock ==
    /\ [](ret.op = "limit" =>
            ret.res.reset =
                CeilSec(ret.now0 + (IF ret.rawTtl > 0 THEN ret.rawTtl
                                    ELSE WindowSec) * 1000))
    /\ [][\A c \in Limiters :
            (calls[c].pc = "idle" /\ calls'[c].pc = "set") =>
                calls'[c].now0 = now]_vars
    /\ [][\A c \in Limiters :
            (calls[c].pc = "ttl" /\ calls'[c].pc = "idle" /\ ret'.op = "limit") =>
                /\ ret'.now0 = calls[c].now0
                /\ ret'.rawTtl = Ttl(store, KeyOf(c), now)]_vars

\* C27 witness: a call that read the clock before the present instant got a
\* TTL reply that is not positive and reports its own start plus the window.
C27_Witness ==
    /\ ret.op = "limit" /\ ret.rawTtl <= 0 /\ ret.now0 > 0 /\ ret.now0 < now
    /\ ret.res.reset = CeilSec(ret.now0 + WindowSec * 1000)

\* C28: the ttl field of every limit() result is the reply to the call's TTL
\* command.
C28_TtlAsReported ==
    ret.op = "limit" => ret.res.ttl = ret.rawTtl

\* C22: a limit() call ends either with a result, after the replies to all
\* three of its commands, or, when one of its commands failed, with that
\* error; a call whose command failed never ends with a result.
C22_FailureSurfaces ==
    [][\A c \in Limiters :
          (calls[c].pc # "idle" /\ calls'[c].pc = "idle") =>
              \/ ret'.op = "limit" /\ calls[c].pc = "ttl"
              \/ /\ ret'.op = "throw" /\ ret'.call = "limit"
                 /\ ret'.error = StoreFailed /\ ret'.at = calls[c].pc]_vars

\* C22 witness: the INCR of a call has failed, after another call was
\* counted, and the call has ended with the error.
C22_Witness ==
    /\ ret.op = "throw" /\ ret.error = StoreFailed /\ ret.at = "incr"
    /\ store[BuildKey(PrefixA, ret.id)].val = 1

\* C23: a limit() call sends SET NX EX window, then INCR, then TTL, each
\* once, and returns after the TTL reply; when a command fails the call ends
\* there, with the store as it was and no further command.
C23_ThreeCommandsInOrder ==
    [][\A c \in Limiters :
          calls'[c].pc # calls[c].pc =>
              \/ /\ calls[c].pc = "idle" /\ calls'[c].pc = "set"
                 /\ store' = store
              \/ /\ calls[c].pc = "set" /\ calls'[c].pc = "incr"
                 /\ store'[KeyOf(c)].ex
                 /\ IF store[KeyOf(c)].ex
                    THEN store' = store
                    ELSE /\ store'[KeyOf(c)].val = 0
                         /\ store'[KeyOf(c)].exp = now + WindowSec * 1000
              \/ /\ calls[c].pc = "incr" /\ calls'[c].pc = "ttl"
                 /\ store'[KeyOf(c)].val =
                        (IF store[KeyOf(c)].ex THEN store[KeyOf(c)].val + 1 ELSE 1)
                 /\ calls'[c].count = store'[KeyOf(c)].val
              \/ /\ calls[c].pc = "ttl" /\ calls'[c].pc = "idle"
                 /\ ret'.op = "limit"
                 /\ ret'.rawTtl = Ttl(store, KeyOf(c), now)
                 /\ store' = store
              \/ /\ calls[c].pc # "idle" /\ calls'[c].pc = "idle"
                 /\ ret'.op = "throw"
                 /\ store' = store]_vars

\* C23 witness: after a call that failed before its INCR, a call has
\* returned count 1 with the TTL of the whole window.
C23_Witness ==
    /\ ret.op = "limit" /\ ret.count = 1 /\ ret.rawTtl = WindowSec
    /\ todo = MaxCallsFail - 2
    /\ \A c \in Limiters : calls[c].pc = "idle"

\* C29: when limit() calls stop between SET and INCR, the stop changes
\* nothing in Redis, every key holds exactly the increments it received and
\* has its expiry, and the calls that return observe 1, 2, ... in the order
\* of their increments.
C29_CrashLeavesCountRight ==
    /\ [](\A k \in Keys :
            store[k].ex => (store[k].val = nIncr[k] /\ store[k].exp # NoExpiry))
    /\ [](ret.op = "limit" => ret.count = ret.ord)
    /\ [][\A c \in Limiters :
            (calls[c].pc = "incr" /\ calls'[c].pc = "idle") => store' = store]_vars

\* C29 witness: of three calls one stopped before its INCR, and the last of
\* the two others has returned count 2.
C29_Witness ==
    /\ ret.op = "limit" /\ ret.count = 2 /\ todo = MaxCallsCrash - 3
    /\ \A c \in Limiters : calls[c].pc = "idle"

\* C25: the constructor throws, and creates nothing, whenever the limit or the
\* window is missing or not positive or the key prefix is missing, empty or
\* blank; it creates the limiter when the Redis client is supplied, the limit
\* and the window are positive and the key prefix has a character that is not
\* white space.
C25_ConstructorValidates ==
    LET Positive(opt) == opt.given /\ opt.v > 0
        Blank(opt) ==
            ~opt.given \/ \A i \in 1 .. Len(opt.v) : opt.v[i] \in Whitespace
        Bad == \/ ~Positive(config.limit)
               \/ ~Positive(config.window)
               \/ Blank(config.keyPrefix)
    IN  made # NotMade =>
            /\ Bad => made \in {RedisRequired, LimitNotPositive,
                                 WindowNotPositive, PrefixRequired}
            /\ (~Bad /\ config.redis) =>
                   /\ made = Created
                   /\ \A l \in Limiters : prefixOf[l] = config.keyPrefix.v

\* a key prefix of white space only is turned down
C25_Witness ==
    /\ made = PrefixRequired
    /\ config.keyPrefix = Given(IdBlanks)

\* C26 (as stated): the limit() calls for one identifier that return
\* allowed = true within a span of time no longer than the window number at
\* most twice the limit.
C26_ReturnedWithinSpan == Len(stamps.returned) <= 2 * Quota

\* C26 (amended): the allowed limit() calls for one identifier whose INCR is
\* executed within a span of time no longer than the window number at most
\* twice the limit.
C26_CountedWithinSpan == Len(stamps.counted) <= 2 * Quota

\* twice the limit is reached: a full limit of allowed calls counted at the end
\* of one lifetime of the key and a full limit counted in the next one, less
\* than a window later
C26_Witness ==
    /\ Len(stamps.counted) = 2 * Quota
    /\ stamps.counted[2 * Quota] - stamps.counted[1] < WindowSec * 1000
    /\ nIncr[BuildKey(PrefixA, IdC)] = Quota

\* C30: with failStrategy "open", set or left out, an invocation of the
\* middleware whose limiter.limit() threw because the Redis client is not
\* available or because a Redis command failed has called next() and has sent
\* no 429 and no 503.
C30_FailOpenPassesOn ==
    \A r \in Limiters :
        (/\ options.failStrategy \in {Unset, "open"}
         /\ mw[r].pc = "done"
         /\ mw[r].cause = "limitThrew"
         /\ mw[r].error \in {NotAvailable, StoreFailed})
        => /\ mw[r].nextCalls >= 1
           /\ mw[r].status = 0
           /\ mw[r].body = NoBody

\* with failStrategy left out, a request whose INCR was rejected has been
\* passed on
C30_Witness ==
    \E r \in Limiters :
        /\ options.failStrategy = Unset
        /\ mw[r].pc = "done"
        /\ mw[r].cause = "limitThrew"
        /\ mw[r].error = StoreFailed
        /\ ret.op = "throw" /\ ret.at = "incr"
        /\ mw[r].nextCalls = 1

\* C31: with failStrategy "closed", an invocation of the middleware whose
\* limiter.limit() threw because the Redis client is not available or because
\* a Redis command failed has sent status 503 and has not called next().
C31_FailClosedBlocks ==
    \A r \in Limiters :
        (/\ options.failStrategy = "closed"
         /\ mw[r].pc = "done"
         /\ mw[r].cause = "limitThrew"
         /\ mw[r].error \in {NotAvailable, StoreFailed})
        => /\ mw[r].status = 503
           /\ mw[r].body.kind = "unavailable"
           /\ mw[r].nextCalls = 0

\* failing closed, a request that found the Redis client down got a 503
C31_Witness ==
    \E r \in Limiters :
        /\ options.failStrategy = "closed"
        /\ mw[r].pc = "done"
        /\ mw[r].cause = "limitThrew"
        /\ mw[r].error = NotAvailable
        /\ mw[r].status = 503

\* C32: an invocation whose limiter result has allowed = false has sent
\* status 429 and has not called next(); one whose result has allowed = true
\* has called next() and has sent no 429; the results with a count up to the
\* limit are the ones that pass, and the count limit + 1 gets the 429.
C32_DeniedGets429 ==
    \A r \in Limiters :
        (/\ mw[r].pc = "done"
         /\ mw[r].cause = "none"
         /\ ~mw[r].skipped
         /\ ret.op = "limit")
        => /\ ~ret.res.allowed => mw[r].status = 429 /\ mw[r].nextCalls = 0
           /\ ret.res.allowed => mw[r].nextCalls >= 1 /\ mw[r].status # 429
           /\ ret.res.allowed <=> ret.count <= Quota

\* the request counted limit + 1 in the lifetime of the key got the 429
C32_Witness ==
    \E r \in Limiters :
        /\ mw[r].pc = "done"
        /\ mw[r].status = 429
        /\ ret.op = "limit"
        /\ ret.count = Quota + 1
        /\ nDone[BuildKey(PrefixA, IdC)] = Quota + 1

\* C33: the step of an invocation for which skip returned true calls next()
\* and leaves the limiter and Redis as they were: no call begun, no command
\* sent, no counter changed; the step of an invocation for which skip
\* returned false, and whose identifier function did not throw, has called
\* limiter.limit().
C33_SkipTouchesNothing ==
    [][\A r \in Limiters :
         (mw'[r] # mw[r] /\ mw[r].pc # "calling") =>
             /\ mw'[r].skipped =>
                   /\ mw'[r].pc = "done"
                   /\ mw'[r].nextCalls >= 1
                   /\ mw'[r].status # 429
                   /\ UNCHANGED <<store, calls, todo, nIncr, ret>>
             /\ (/\ ~mw'[r].skipped
                 /\ mw'[r].cause \notin {"skipThrew", "identifierThrew"}
                 /\ mw'[r] # NewRequest(FALSE)) =>
                   \/ mw'[r].pc = "calling" /\ calls'[r].pc = "set"
                   \/ mw'[r].cause = "limitThrew" /\ ret'.op = "throw"]_vars

\* a skipped request has been passed on while the counter of the client
\* stands at the limit
C33_Witness ==
    \E r \in Limiters :
        /\ mw[r].skipped
        /\ mw[r].nextCalls = 1
        /\ store[BuildKey(PrefixA, IdC)].val = Quota

\* C34: with standardHeaders on (set or left out), an invocation that got a
\* limiter result carries X-RateLimit-Limit, X-RateLimit-Remaining and
\* X-RateLimit-Reset with the decimal strings of the result's limit, remaining
\* and reset, and carries Retry-After exactly when allowed = false, with the
\* result's ttl, which is greater than 0; with standardHeaders off no
\* invocation carries any of these headers.
C34_HeadersFromResult ==
    \A r \in Limiters :
        /\ (/\ options.standardHeaders \in {Unset, "on"}
            /\ mw[r].pc = "done"
            /\ mw[r].cause = "none"
            /\ ~mw[r].skipped
            /\ ret.op = "limit")
           => /\ mw[r].headers.set
              /\ ParseInt(mw[r].headers.limit) = ret.res.limit
              /\ ParseInt(mw[r].headers.remaining) = ret.res.remaining
              /\ ParseInt(mw[r].headers.reset) = ret.res.reset
              /\ mw[r].headers.retryAfter.given <=> ~ret.res.allowed
              /\ mw[r].headers.retryAfter.given =>
                    /\ ParseInt(mw[r].headers.retryAfter.v) = ret.res.ttl
                    /\ ParseInt(mw[r].headers.retryAfter.v) > 0
        /\ options.standardHeaders = "off" => mw[r].headers = NoHeaders

\* a denied request carries Retry-After, here after a TTL reply that is not
\* positive
C34_Witness ==
    \E r \in Limiters :
        /\ mw[r].pc = "done"
        /\ mw[r].status = 429
        /\ mw[r].headers.retryAfter.given
        /\ ret.op = "limit"
        /\ ret.rawTtl <= 0

\* C35: with the Redis client available and its commands answered, an
\* invocation that was not skipped, and whose skip and identifier functions
\* did not throw, has reached next() only with a limiter result, that is,
\* counted by one INCR.
C35_NoRequestPassesUncounted ==
    \A r \in Limiters :
        (/\ mw[r].pc = "done"
         /\ ~mw[r].skipped
         /\ mw[r].cause \notin {"skipThrew", "identifierThrew"}
         /\ mw[r].error \notin {NotAvailable, StoreFailed}
         /\ mw[r].nextCalls >= 1)
        => mw[r].cause = "none"

\* C36: a limit() call that ends with an error has not incremented the
\* counter: it has no INCR reply, and the stored value is what it was before
\* any command of the call that ran.
C36_ErrorConsumesNothing ==
    [][\A c \in Limiters :
          (/\ calls[c].pc # "idle"
           /\ calls'[c].pc = "idle"
           /\ ret'.op = "throw")
          => calls[c].count = 0]_vars

\* C37: a non-null result of getStatus() has a current count of at least 1,
\* whatever limit() calls are in flight.
C37_StatusCountPositive ==
    (ret.op = "status" /\ ~ret.status.null) => ret.status.current >= 1

\* C38: the ttl of every result of limit() lies between 1 and the window,
\* whether the TTL reply was positive, 0 or negative.
C38_TtlWithinWindow ==
    ret.op = "limit" => (1 <= ret.res.ttl /\ ret.res.ttl <= WindowSec)

\* a call whose TTL reply was 0, for a key about to expire, has returned the
\* window as its ttl
C38_Witness ==
    /\ ret.op = "limit"
    /\ ret.rawTtl = 0
    /\ ret.res.ttl = WindowSec

\* C39: an invocation of the middleware that has ended has either called
\* next() exactly once and sent no response, or sent exactly one response,
\* 429 or 503, and not called next().
C39_ExactlyOneOutcome ==
    \A r \in Limiters :
        mw[r].pc = "done" =>
            \/ mw[r].nextCalls = 1 /\ mw[r].status = 0
            \/ mw[r].nextCalls = 0 /\ mw[r].status \in {429, 503}

====
